---- MODULE Spec2Model ----
(***************************************************************************)
(* Model of the vcell crate (src/src/lib.rs): the process-wide INTERFACE   *)
(* slot, the generic VolatileCell<T> and the fixed-width VolatileCell32    *)
(* and VolatileCell8.                                                      *)
(*                                                                         *)
(* A fixed-width get/set is two steps: the SeqCst load of INTERFACE done   *)
(* by memory_interface(), then the access (a backend call or a volatile    *)
(* access to the cell's own storage).  Another execution context may run   *)
(* between the two.  A cell is !Sync, so only the context that owns it     *)
(* calls its methods.                                                      *)
(*                                                                         *)
(* A pointer (usize, 64 bits) is the record [hi, lo] of its two 32-bit     *)
(* halves, so that no number of the model exceeds 32 bits.                 *)
(***************************************************************************)
EXTENDS Integers, Sequences, FiniteSets, TLC

\* ---------------------------------------------------------------- bounds
\* Values written to and held by cells are 0..MaxVal.
MaxVal == 1
\* At most MaxInstalls calls of set_memory_interface in one behaviour.
MaxInstalls == 2
\* The upper half of a cell's storage address is 0..MaxHi.
MaxHi == 1

\* ------------------------------------------------------------- universes
\* App holds the cells (a cell is !Sync); Harness only installs backends.
App == "app"
Harness == "harness"
Contexts == {App, Harness}
Cells == {"c1", "c2"}
Backends == {"B1", "B2"}
Kinds == {"VolatileCell", "VolatileCell32", "VolatileCell8"}
FixedKinds == {"VolatileCell32", "VolatileCell8"}
Values == 0..MaxVal
\* Lower halves of the storage addresses: 0x2000_0000 and 0x2001_0000.
LoWords == {536870912, 536936448}
Pointers == [hi : 0..MaxHi, lo : LoWords]
\* Where the cells of Spec are placed: c2 lies 2^32 bytes above c1.
Layout(c) == IF c = "c1" THEN [hi |-> 0, lo |-> 536870912] ELSE [hi |-> 1, lo |-> 536870912]

\* null_mut() (lib.rs:19); also the None of memory_interface().
Null == "null"
NoVal == 0 - 1
NoPtr == [hi |-> NoVal, lo |-> NoVal]
NoCell == [live |-> FALSE, kind |-> "none", addr |-> NoPtr, value |-> NoVal]
\* Summary of a completed operation on a cell.
NoDone == [op |-> "none", cell |-> "none", value |-> NoVal, mem |-> Null, addr |-> NoVal]
\* What App has observed of its current or last call.
Idle ==
    [op |-> "none", cell |-> "none", value |-> NoVal, slot |-> Null, mem |-> Null,
     regReads |-> 0, calls |-> <<>>, dreads |-> 0, dwrites |-> 0,
     result |-> NoVal, ptr |-> NoPtr, after |-> NoDone]

VARIABLES
    INTERFACE,  \* the static AtomicPtr: Null or a backend
    cells,      \* cell -> [live, kind, addr, value]
    bmem,       \* backend -> its simulated memory, u32 address -> word
    pc,         \* "idle", or the access step App is about to take
    cur,        \* observation of App's current / last call
    prev,       \* the operation that completed last, in either context
    written,    \* cell -> the value of its latest set, or of new if none
    installs    \* number of set_memory_interface calls so far

vars == <<INTERFACE, cells, bmem, pc, cur, prev, written, installs>>

\* ------------------------------------------------- backend (collaborator)
Call(b, fn, a, v, r) == [backend |-> b, fn |-> fn, addr |-> a, value |-> v, ret |-> r]

\* A simulated memory that keeps the word written at each mapped address;
\* an unmapped address reads as zero and ignores writes.  The 8-bit
\* operations act on the low byte of the word.
Word(m, a) == IF a \in DOMAIN m THEN m[a] ELSE 0
Store(m, a, w) == IF a \in DOMAIN m THEN [m EXCEPT ![a] = w] ELSE m
read32(m, a) == Word(m, a)
write32(m, a, v) == Store(m, a, v)
read8(m, a) == Word(m, a) % 256
write8(m, a, v) == Store(m, a, (Word(m, a) \div 256) * 256 + (v % 256))

\* ----------------------------------------------------------- the registry
\* INTERFACE.load(SeqCst); None when the pointer is null.
\* Faulty variant: the registry always looks empty.
memory_interface_AlwaysNone(ptr) == Null

memory_interface(ptr) == IF ptr = Null THEN Null ELSE ptr

\* `self.value.get() as usize as u32`: the pointer truncated to 32 bits.
\* Faulty variant: the pointer truncated to 16 bits.
AsU32_Truncated16(p) == p.lo % 65536

AsU32(p) == p.lo

\* ------------------------------------------------------ the cells' methods
\* The effect of one access, given the interface the call loaded (mem), the
\* cell and the backend's memory: the backend calls made, the value returned,
\* the number of volatile reads / writes of the cell's own storage, the
\* storage afterwards and the backend's memory afterwards.
Effect(calls, result, dreads, dwrites, store, m) ==
    [calls |-> calls, result |-> result, dreads |-> dreads, dwrites |-> dwrites,
     store |-> store, m |-> m]

\* Faulty variant: the generic get routed through the installed backend.
VolatileCell_get_Routed(cell) ==
    IF INTERFACE # Null
    THEN LET r == read32(bmem[INTERFACE], cell.addr.lo)
         IN Effect(<<Call(INTERFACE, "read32", cell.addr.lo, NoVal, r)>>, r, 0, 0,
                   cell.value, NoVal)
    ELSE Effect(<<>>, cell.value, 1, 0, cell.value, NoVal)

VolatileCell_get(cell) == Effect(<<>>, cell.value, 1, 0, cell.value, NoVal)

\* Faulty variant: the volatile write is lost.
VolatileCell_set_Dropped(cell, value) == Effect(<<>>, NoVal, 0, 1, cell.value, NoVal)

VolatileCell_set(cell, value) == Effect(<<>>, NoVal, 0, 1, value, NoVal)

\* Faulty variant: the backend is called, but the cell's own storage is returned.
VolatileCell32_get_ReadsStorage(mem, cell, bm) ==
    IF mem # Null
    THEN LET address == AsU32(cell.addr)
             r == read32(bm[mem], address)
         IN Effect(<<Call(mem, "read32", address, NoVal, r)>>, cell.value, 1, 0,
                   cell.value, bm)
    ELSE Effect(<<>>, cell.value, 1, 0, cell.value, bm)

VolatileCell32_get(mem, cell, bm) ==
    IF mem # Null
    THEN LET address == AsU32(cell.addr)
             r == read32(bm[mem], address)
         IN Effect(<<Call(mem, "read32", address, NoVal, r)>>, r, 0, 0, cell.value, bm)
    ELSE Effect(<<>>, cell.value, 1, 0, cell.value, bm)

\* Faulty variant: set never goes to the backend.
VolatileCell32_set_Unrouted(mem, cell, value, bm) == Effect(<<>>, NoVal, 0, 1, value, bm)

VolatileCell32_set(mem, cell, value, bm) ==
    IF mem # Null
    THEN LET address == AsU32(cell.addr)
         IN Effect(<<Call(mem, "write32", address, value, NoVal)>>, NoVal, 0, 0, cell.value,
                   [bm EXCEPT ![mem] = write32(bm[mem], address, value)])
    ELSE Effect(<<>>, NoVal, 0, 1, value, bm)

VolatileCell8_get(mem, cell, bm) ==
    IF mem # Null
    THEN LET address == AsU32(cell.addr)
             r == read8(bm[mem], address)
         IN Effect(<<Call(mem, "read8", address, NoVal, r)>>, r, 0, 0, cell.value, bm)
    ELSE Effect(<<>>, cell.value, 1, 0, cell.value, bm)

\* Faulty variant: the backed set also writes the cell's own storage.
VolatileCell8_set_WritesThrough(mem, cell, value, bm) ==
    IF mem # Null
    THEN LET address == AsU32(cell.addr)
         IN Effect(<<Call(mem, "write8", address, value, NoVal)>>, NoVal, 0, 1, value,
                   [bm EXCEPT ![mem] = write8(bm[mem], address, value)])
    ELSE Effect(<<>>, NoVal, 0, 1, value, bm)

VolatileCell8_set(mem, cell, value, bm) ==
    IF mem # Null
    THEN LET address == AsU32(cell.addr)
         IN Effect(<<Call(mem, "write8", address, value, NoVal)>>, NoVal, 0, 0, cell.value,
                   [bm EXCEPT ![mem] = write8(bm[mem], address, value)])
    ELSE Effect(<<>>, NoVal, 0, 1, value, bm)

\* `self.value.get()`: the address of the cell's own storage.
\* Faulty variant: the pointer loses its upper half.
as_ptr_Truncated(cell) == [hi |-> 0, lo |-> cell.addr.lo]

as_ptr(cell) == cell.addr

\* ------------------------------------------------------------------ state
Init ==
    /\ INTERFACE = Null
    /\ cells = [c \in Cells |-> NoCell]
    /\ bmem = [b \in Backends |-> [a \in LoWords |-> 0]]
    /\ pc = "idle"
    /\ cur = Idle
    /\ prev = NoDone
    /\ written = [c \in Cells |-> NoVal]
    /\ installs = 0

Done(o) ==
    [op |-> o.op, cell |-> o.cell, value |-> o.value, mem |-> o.mem,
     addr |-> IF o.calls = <<>> THEN NoVal ELSE o.calls[1].addr]

\* App finishes its call with observation o.
Complete(o) ==
    /\ cur' = [o EXCEPT !.after = prev]
    /\ prev' = Done(o)
    /\ pc' = "idle"

\* Apply effect e of a call on cell c to the observation o.
Apply(c, o, e) ==
    /\ cells' = [cells EXCEPT ![c].value = e.store]
    /\ written' = IF o.op = "set" THEN [written EXCEPT ![c] = o.value] ELSE written
    /\ Complete([o EXCEPT !.calls = e.calls, !.result = e.result,
                         !.dreads = e.dreads, !.dwrites = e.dwrites])

Start(op, c, v) == [Idle EXCEPT !.op = op, !.cell = c, !.value = v, !.slot = INTERFACE]

\* VolatileCell*::new(value)
New(c, kind, v) ==
    /\ pc = "idle"
    /\ ~cells[c].live
    /\ cells' = [cells EXCEPT ![c] =
                   [live |-> TRUE, kind |-> kind, addr |-> Layout(c), value |-> v]]
    /\ written' = [written EXCEPT ![c] = v]
    /\ Complete(Start("new", c, v))
    /\ UNCHANGED <<INTERFACE, bmem, installs>>

\* Faulty variant: only the first install takes effect.
set_memory_interface_KeepsFirst(interface) == IF INTERFACE = Null THEN interface ELSE INTERFACE

\* INTERFACE.store(interface, SeqCst): the slot's content afterwards.
set_memory_interface(interface) == interface

\* set_memory_interface(b), called in context ctx.
Install(ctx, b) ==
    /\ installs < MaxInstalls
    /\ INTERFACE' = set_memory_interface(b)
    /\ installs' = installs + 1
    /\ prev' = [NoDone EXCEPT !.op = "install", !.mem = b]
    /\ IF ctx = App
       THEN pc = "idle" /\ cur' = [Start("install", "none", NoVal) EXCEPT !.mem = b]
       ELSE cur' = cur
    /\ UNCHANGED <<cells, bmem, pc, written>>

GenericGet(c) ==
    /\ pc = "idle" /\ cells[c].live /\ cells[c].kind = "VolatileCell"
    /\ Apply(c, Start("get", c, NoVal), VolatileCell_get(cells[c]))
    /\ UNCHANGED <<INTERFACE, bmem, installs>>

GenericSet(c, v) ==
    /\ pc = "idle" /\ cells[c].live /\ cells[c].kind = "VolatileCell"
    /\ Apply(c, Start("set", c, v), VolatileCell_set(cells[c], v))
    /\ UNCHANGED <<INTERFACE, bmem, installs>>

AsPtr(c) ==
    /\ pc = "idle" /\ cells[c].live
    /\ Complete([Start("as_ptr", c, NoVal) EXCEPT !.ptr = as_ptr(cells[c])])
    /\ UNCHANGED <<INTERFACE, cells, bmem, written, installs>>

\* First step of a fixed-width get/set: `memory_interface()`.
Load(c, op, v, kind, next) ==
    /\ pc = "idle" /\ cells[c].live /\ cells[c].kind = kind
    /\ pc' = next
    /\ cur' = [Start(op, c, v) EXCEPT !.mem = memory_interface(INTERFACE), !.regReads = 1]
    /\ UNCHANGED <<INTERFACE, cells, bmem, prev, written, installs>>

\* Second step: the backend call or the volatile access.
Access(e) ==
    /\ bmem' = e.m
    /\ Apply(cur.cell, cur, e)
    /\ UNCHANGED <<INTERFACE, installs>>

Get32Load(c) == Load(c, "get", NoVal, "VolatileCell32", "get32")

\* Faulty variant: the access step reads the registry again.
Get32Access_Reloads ==
    /\ pc = "get32"
    /\ Access(VolatileCell32_get(memory_interface(INTERFACE), cells[cur.cell], bmem))

Get32Access ==
    /\ pc = "get32"
    /\ Access(VolatileCell32_get(cur.mem, cells[cur.cell], bmem))

Set32Load(c, v) == Load(c, "set", v, "VolatileCell32", "set32")

Set32Access ==
    /\ pc = "set32"
    /\ Access(VolatileCell32_set(cur.mem, cells[cur.cell], cur.value, bmem))

Get8Load(c) == Load(c, "get", NoVal, "VolatileCell8", "get8")

Get8Access ==
    /\ pc = "get8"
    /\ Access(VolatileCell8_get(cur.mem, cells[cur.cell], bmem))

Set8Load(c, v) == Load(c, "set", v, "VolatileCell8", "set8")

Set8Access ==
    /\ pc = "set8"
    /\ Access(VolatileCell8_set(cur.mem, cells[cur.cell], cur.value, bmem))

\* The calls every cell type has in its fixed-width form, and as_ptr.
FixedCalls ==
    \/ \E c \in Cells : AsPtr(c)
    \/ \E c \in Cells : Get32Load(c)
    \/ Get32Access
    \/ \E c \in Cells, v \in Values : Set32Load(c, v)
    \/ Set32Access
    \/ \E c \in Cells : Get8Load(c)
    \/ Get8Access
    \/ \E c \in Cells, v \in Values : Set8Load(c, v)
    \/ Set8Access

Next ==
    \/ \E c \in Cells, k \in Kinds, v \in Values : New(c, k, v)
    \/ \E ctx \in Contexts, b \in Backends : Install(ctx, b)
    \/ \E c \in Cells : GenericGet(c)
    \/ \E c \in Cells, v \in Values : GenericSet(c, v)
    \/ FixedCalls

Spec == Init /\ [][Next]_vars

\* The address computation on its own: two fixed-width cells placed anywhere
\* in Pointers, a backend installed, and App calling them.
InitAddr ==
    /\ INTERFACE \in Backends
    /\ cells \in {f \in [Cells -> [live : {TRUE}, kind : FixedKinds, addr : Pointers, value : {0}]] :
                    \A c, d \in Cells : c # d => f[c].addr # f[d].addr}
    /\ bmem = [b \in Backends |-> [a \in LoWords |-> 0]]
    /\ pc = "idle"
    /\ cur = Idle
    /\ prev = NoDone
    /\ written = [c \in Cells |-> 0]
    /\ installs = 1

SpecAddr == InitAddr /\ [][FixedCalls]_vars

\* ----------------------------------------------------------------- claims
IsDone(op) == pc = "idle" /\ cur.op = op
KindOf(c) == cells[c].kind
OnFixed == cur.op \in {"get", "set"} /\ KindOf(cur.cell) \in FixedKinds
OnGeneric == cur.op \in {"get", "set"} /\ KindOf(cur.cell) = "VolatileCell"
ReadFn(kind) == IF kind = "VolatileCell32" THEN "read32" ELSE "read8"
WriteFn(kind) == IF kind = "VolatileCell32" THEN "write32" ELSE "write8"
\* The storage address of cell c, truncated to its low 32 bits.
Low32(c) == cells[c].addr.lo
NoAccess == cur.dreads = 0 /\ cur.dwrites = 0

\* C1: a get() of a VolatileCell32 / VolatileCell8 that finds a backend in the
\* registry makes exactly one call, the read of its width, to that backend with
\* the cell's storage address, returns what the backend returned and does not
\* read the cell's storage.
C1_BackedGet ==
    (IsDone("get") /\ OnFixed /\ cur.slot # Null) =>
        /\ Len(cur.calls) = 1
        /\ cur.calls[1].backend = cur.slot
        /\ cur.calls[1].fn = ReadFn(KindOf(cur.cell))
        /\ cur.calls[1].addr = Low32(cur.cell)
        /\ cur.result = cur.calls[1].ret
        /\ NoAccess

\* A backed get whose result differs from the value in the cell's storage.
C1_Witness ==
    /\ IsDone("get") /\ OnFixed /\ cur.slot # Null
    /\ cur.result # cells[cur.cell].value

\* C2: a set(v) of a VolatileCell32 / VolatileCell8 that finds a backend in the
\* registry makes exactly one call, the write of its width, to that backend with
\* (storage address, v), and leaves the storage of every cell unchanged.
C2_BackedSet ==
    [][(pc \in {"set32", "set8"} /\ pc' = "idle" /\ cur.slot # Null) =>
          /\ cur'.calls = <<Call(cur.slot, WriteFn(KindOf(cur.cell)), Low32(cur.cell),
                                 cur.value, NoVal)>>
          /\ cur'.dreads = 0 /\ cur'.dwrites = 0
          /\ cells' = cells]_vars

\* A backed set of a value the storage does not hold, after an earlier backed
\* set on the same cell.
C2_Witness ==
    /\ IsDone("set") /\ OnFixed /\ cur.slot # Null
    /\ cur.after.op = "set" /\ cur.after.cell = cur.cell /\ cur.after.mem # Null
    /\ cells[cur.cell].value # cur.value
    /\ cells[cur.cell].value # cur.after.value

C4_NoBackend ==
    (installs = 0 /\ pc = "idle" /\ cur.op \in {"get", "set"}) =>
        /\ cur.calls = <<>>
        /\ cells[cur.cell].value = written[cur.cell]
        /\ cur.op = "get" =>
              cur.result = written[cur.cell] /\ cur.dreads = 1 /\ cur.dwrites = 0
        /\ cur.op = "set" =>
              cur.value = written[cur.cell] /\ cur.dreads = 0 /\ cur.dwrites = 1

\* A get, with no backend ever installed, right after a get that followed a set.
C4_Witness ==
    /\ installs = 0 /\ IsDone("get")
    /\ cur.after.op = "get" /\ cur.after.cell = cur.cell
    /\ cur.result = MaxVal

\* C5: set(v) immediately followed by get() on the same cell returns v, when
\* both calls found no backend and when both found the same backend.
C5_RoundTrip ==
    (IsDone("get") /\ cur.after.op = "set" /\ cur.after.cell = cur.cell
        /\ cur.after.mem = cur.mem) =>
        cur.result = cur.after.value

\* A round trip through a backend: the storage holds another value.
C5_Witness ==
    /\ IsDone("get") /\ cur.after.op = "set" /\ cur.after.cell = cur.cell
    /\ cur.after.mem = cur.mem /\ cur.mem # Null
    /\ cur.result = cur.after.value
    /\ cells[cur.cell].value # cur.result

C8_AsPtr ==
    [][/\ (pc = "idle" /\ pc' = "idle" /\ cur'.op = "as_ptr" /\ installs' = installs) =>
            /\ cur'.ptr = cells'[cur'.cell].addr
            /\ cur'.calls = <<>> /\ cur'.regReads = 0
            /\ cur'.dreads = 0 /\ cur'.dwrites = 0
            /\ UNCHANGED <<INTERFACE, cells, bmem>>
       /\ \A c \in Cells : cells[c].live =>
            cells'[c].live /\ cells'[c].addr = cells[c].addr]_vars

\* as_ptr() on the cell above 2^32, twice in a row, with a backend installed.
C8_Witness ==
    /\ IsDone("as_ptr") /\ INTERFACE # Null
    /\ cur.after.op = "as_ptr" /\ cur.after.cell = cur.cell
    /\ cur.ptr = cells[cur.cell].addr /\ cur.ptr.hi = 1

\* C9: the registry is empty initially; it changes only by an install, which
\* leaves exactly the installed backend in it whatever it held; once non-empty
\* it is never empty again, so a fixed-width call then always finds a backend.
C9_Registry ==
    /\ INTERFACE = Null
    /\ [][/\ INTERFACE' # INTERFACE => installs' = installs + 1
          /\ installs' # installs =>
                prev'.op = "install" /\ prev'.mem \in Backends /\ INTERFACE' = prev'.mem
          /\ INTERFACE # Null => INTERFACE' # Null
          /\ (INTERFACE # Null /\ pc = "idle" /\ pc' # "idle") => cur'.mem # Null]_vars

\* B2 installed over B1.
C9_Witness ==
    /\ INTERFACE = "B2" /\ installs = 2
    /\ cur.op = "install" /\ cur.mem = "B1"

\* C10: the address a VolatileCell32 / VolatileCell8 passes to the backend is
\* the low 32 bits of its storage address, in get and in set; it is as_ptr()
\* as a number exactly when the upper half of the storage address is zero; and
\* two calls on distinct cells pass the same address exactly when the cells'
\* storage addresses agree in their low 32 bits.
C10_Address ==
    (pc = "idle" /\ OnFixed /\ cur.slot # Null) =>
        LET a == cur.calls[1].addr
        IN /\ a = Low32(cur.cell)
           /\ ([hi |-> 0, lo |-> a] = as_ptr(cells[cur.cell])) <=> (cells[cur.cell].addr.hi = 0)
           /\ (cur.after.op \in {"get", "set"} /\ cur.after.addr # NoVal) =>
                 /\ cur.after.cell = cur.cell => cur.after.addr = a
                 /\ (cur.after.addr = a) <=> (Low32(cur.after.cell) = Low32(cur.cell))

\* Two distinct cells, one above 2^32, passed the same backend address.
C10_Witness ==
    /\ pc = "idle" /\ OnFixed /\ cur.slot # Null
    /\ cur.after.op \in {"get", "set"} /\ cur.after.cell # cur.cell
    /\ cur.after.addr = cur.calls[1].addr
    /\ cells[cur.cell].addr.hi # 0

====
